---- MODULE Spec2Model ----
(***************************************************************************)
(* Model of the simple-mermaid crate (src/src/lib.rs): the declarative     *)
(* macros mermaid!, _mermaid_inner! and _mermaid_background!.              *)
(*                                                                         *)
(* One behaviour is the expansion of one call site                         *)
(*     mermaid!(file tok1 tok2 ...)                                        *)
(* The compiler first matches the token list against the arms of mermaid!  *)
(* (a compile error when no arm matches), then expands _mermaid_inner!,    *)
(* whose concat! reads the file with include_str! (a compile error when    *)
(* the file cannot be read) and yields the final string literal.           *)
(* Strings are modelled as the strings they are, byte for byte.            *)
(***************************************************************************)
EXTENDS Integers, Sequences, FiniteSets, TLC

VARIABLES pc, file, mods, disk, pos, style, fileRead, output

vars == <<pc, file, mods, disk, pos, style, fileRead, output>>

(***************************************************************************)
(* Bounds of the model.                                                    *)
(***************************************************************************)
\* Longest modifier list tried at a call site.
MaxTokens == 3

(***************************************************************************)
(* Inputs.                                                                 *)
(***************************************************************************)
\* Identifier tokens a caller may write after the path.  "unknown" stands
\* for any identifier that no arm of mermaid! mentions.
Tokens == {"left", "right", "center", "framed", "transparent", "unknown"}

ModifierLists == UNION {[1..n -> Tokens] : n \in 0..MaxTokens}

\* Path literals of the call site.
Paths == {"graph.mmd", "../doc/sequence.mmd"}

\* What include_str! may find at the path: text of any kind, never
\* interpreted.  Some of it looks like the markup the macro itself emits.
DiagramSources ==
    { "graph TD; A-->B;",
      "sequenceDiagram",
      "",
      "\n",
      "a\nb\n",
      "x</pre>y",
      "\">\n</pre><script type=\"module\">",
      "background: transparent;",
      "style=\"text-align:left;\"" }

\* The file system at the path: <<>> when the file cannot be read,
\* <<text>> when it holds text.
DiskStates == {<<>>} \cup {<<s>> : s \in DiagramSources}

(***************************************************************************)
(* macro_rules! mermaid: the arms, in source order.  pattern is the token  *)
(* list after $file:literal; pos and style are the identifiers handed to   *)
(* _mermaid_inner!.                                                        *)
(***************************************************************************)
Arm(pattern, p, s) == [pattern |-> pattern, pos |-> p, style |-> s]

MermaidArms ==
    << Arm(<<>>,                    "center", "transparent"),
       Arm(<<"left", "framed">>,    "left",   "framed"),
       Arm(<<"framed", "left">>,    "left",   "framed"),
       Arm(<<"center", "framed">>,  "center", "framed"),
       Arm(<<"framed", "center">>,  "center", "framed"),
       Arm(<<"right", "framed">>,   "right",  "framed"),
       Arm(<<"framed", "right">>,   "right",  "framed"),
       Arm(<<"framed">>,            "center", "framed"),
       Arm(<<"left">>,              "left",   "transparent"),
       Arm(<<"right">>,             "right",  "transparent"),
       Arm(<<"center">>,            "center", "transparent") >>

\* Mutant: the arms that spell framed before the alignment are skipped.
MatchArm_FirstOrderOnly(m) ==
    LET hits == {i \in 1..Len(MermaidArms) :
                    /\ MermaidArms[i].pattern = m
                    /\ ~(Len(m) = 2 /\ m[1] = "framed")}
    IN  IF hits = {} THEN 0
        ELSE CHOOSE i \in hits : \A j \in hits : i <= j

\* Mutant: an arm matches as soon as its pattern is a prefix of the token
\* list, as if every arm ended in $($rest:tt)*.
MatchArm_Prefix(m) ==
    LET hits == {i \in 1..Len(MermaidArms) :
                    /\ Len(MermaidArms[i].pattern) <= Len(m)
                    /\ SubSeq(m, 1, Len(MermaidArms[i].pattern)) = MermaidArms[i].pattern}
    IN  IF hits = {} THEN 0
        ELSE CHOOSE i \in hits : \A j \in hits : i <= j

\* macro_rules! tries the arms top to bottom and takes the first whose
\* pattern equals the token list; 0 when none does.
MatchArm(m) ==
    LET hits == {i \in 1..Len(MermaidArms) : MermaidArms[i].pattern = m}
    IN  IF hits = {} THEN 0
        ELSE CHOOSE i \in hits : \A j \in hits : i <= j

\* Mutant: the two arms of _mermaid_background! are exchanged.
MermaidBackground_Swapped(s) ==
    CASE s = "framed"      -> "background: transparent;"
      [] s = "transparent" -> ""

(***************************************************************************)
(* macro_rules! _mermaid_background                                        *)
(***************************************************************************)
MermaidBackground(s) ==
    CASE s = "framed"      -> ""
      [] s = "transparent" -> "background: transparent;"

\* Mutant: the newline after the included text is left out.
MermaidInner_NoTrailingNewline(text, p, s) ==
    "<pre class=\"mermaid\" style=\"text-align:" \o p \o ";"
    \o (IF s = "transparent" THEN "background: transparent;" ELSE "") \o "\">\n"
    \o text
    \o "</pre>"
    \o "<script type=\"module\">"
    \o "import mermaid from \"https://cdn.jsdelivr.net/npm/mermaid@10/dist/mermaid.esm.min.mjs\";"
    \o "var doc_theme = localStorage.getItem(\"rustdoc-theme\");"
    \o "if (doc_theme === \"dark\" || doc_theme === \"ayu\") mermaid.initialize({theme: \"dark\"});"
    \o "</script>"

\* Mutant: the bootstrap script is emitted before the container.
MermaidInner_ScriptFirst(text, p, s) ==
    "<script type=\"module\">"
    \o "import mermaid from \"https://cdn.jsdelivr.net/npm/mermaid@10/dist/mermaid.esm.min.mjs\";"
    \o "var doc_theme = localStorage.getItem(\"rustdoc-theme\");"
    \o "if (doc_theme === \"dark\" || doc_theme === \"ayu\") mermaid.initialize({theme: \"dark\"});"
    \o "</script>"
    \o "<pre class=\"mermaid\" style=\"text-align:" \o p \o ";"
    \o (IF s = "transparent" THEN "background: transparent;" ELSE "") \o "\">\n"
    \o text \o "\n"
    \o "</pre>"

(***************************************************************************)
(* macro_rules! _mermaid_inner: the concat! of the literals, of            *)
(* stringify!($pos) (the identifier's text), of _mermaid_background! and   *)
(* of the included text.                                                   *)
(***************************************************************************)
MermaidInner(text, p, s) ==
    "<pre class=\"mermaid\" style=\"text-align:" \o p \o ";" \o MermaidBackground(s) \o "\">\n"
    \o text \o "\n"
    \o "</pre>"
    \o "<script type=\"module\">"
    \o "import mermaid from \"https://cdn.jsdelivr.net/npm/mermaid@10/dist/mermaid.esm.min.mjs\";"
    \o "var doc_theme = localStorage.getItem(\"rustdoc-theme\");"
    \o "if (doc_theme === \"dark\" || doc_theme === \"ayu\") mermaid.initialize({theme: \"dark\"});"
    \o "</script>"

(***************************************************************************)
(* The state machine of one call site.                                     *)
(***************************************************************************)
Init ==
    /\ pc = "call"
    /\ file \in Paths
    /\ mods \in ModifierLists
    /\ disk \in DiskStates
    /\ pos = "unset"
    /\ style = "unset"
    /\ fileRead = FALSE
    /\ output = <<>>

\* Mutant: the style of the matched arm is not handed on; every arm
\* expands with transparent.
MermaidMatch_StyleDropped ==
    /\ pc = "call"
    /\ MatchArm(mods) # 0
    /\ pos' = MermaidArms[MatchArm(mods)].pos
    /\ style' = "transparent"
    /\ pc' = "inner"
    /\ UNCHANGED <<file, mods, disk, fileRead, output>>

\* Mutant: the two-token arms expand with the alignment of the arm above
\* them (a line copied and not edited).
MermaidMatch_PosCopied ==
    /\ pc = "call"
    /\ MatchArm(mods) # 0
    /\ pos' = IF Len(mods) = 2 /\ MatchArm(mods) > 2
              THEN MermaidArms[MatchArm(mods) - 1].pos
              ELSE MermaidArms[MatchArm(mods)].pos
    /\ style' = MermaidArms[MatchArm(mods)].style
    /\ pc' = "inner"
    /\ UNCHANGED <<file, mods, disk, fileRead, output>>

\* mermaid!: an arm matches and expands to _mermaid_inner!($file pos style).
MermaidMatch ==
    /\ pc = "call"
    /\ MatchArm(mods) # 0
    /\ pos' = MermaidArms[MatchArm(mods)].pos
    /\ style' = MermaidArms[MatchArm(mods)].style
    /\ pc' = "inner"
    /\ UNCHANGED <<file, mods, disk, fileRead, output>>

\* Mutant: the file is read before the token list is matched.
MermaidNoMatch_ReadsFile ==
    /\ pc = "call"
    /\ MatchArm(mods) = 0
    /\ fileRead' = TRUE
    /\ pc' = "config_error"
    /\ UNCHANGED <<file, mods, disk, pos, style, output>>

\* mermaid!: no arm matches; the compiler reports "no rules expected the
\* token" and nothing is expanded.
MermaidNoMatch ==
    /\ pc = "call"
    /\ MatchArm(mods) = 0
    /\ pc' = "config_error"
    /\ UNCHANGED <<file, mods, disk, pos, style, fileRead, output>>

\* _mermaid_inner!: include_str! reads the file and concat! builds the
\* string literal.
InnerRender ==
    /\ pc = "inner"
    /\ disk # <<>>
    /\ fileRead' = TRUE
    /\ output' = <<MermaidInner(disk[1], pos, style)>>
    /\ pc' = "done"
    /\ UNCHANGED <<file, mods, disk, pos, style>>

\* Mutant: an unreadable file is taken for an empty one.
InnerIncludeFail_EmptyText ==
    /\ pc = "inner"
    /\ disk = <<>>
    /\ fileRead' = TRUE
    /\ output' = <<MermaidInner("", pos, style)>>
    /\ pc' = "done"
    /\ UNCHANGED <<file, mods, disk, pos, style>>

\* _mermaid_inner!: include_str! cannot read the file; the compiler
\* reports the error and concat! yields nothing.
InnerIncludeFail ==
    /\ pc = "inner"
    /\ disk = <<>>
    /\ fileRead' = TRUE
    /\ pc' = "resource_error"
    /\ UNCHANGED <<file, mods, disk, pos, style, output>>

Next ==
    \/ MermaidMatch
    \/ MermaidNoMatch
    \/ InnerRender
    \/ InnerIncludeFail

Spec == Init /\ [][Next]_vars

(***************************************************************************)
(* Vocabulary of the properties.                                           *)
(***************************************************************************)
AlignmentTokens == {"left", "right", "center"}
StyleTokens == {"framed", "transparent"}
Vocabulary == AlignmentTokens \cup StyleTokens

\* The mermaid! step of the call site is over.
Matched == pc \in {"inner", "done", "resource_error"}
Rejected == pc = "config_error"
Settled == Matched \/ Rejected

Swap(m) == <<m[2], m[1]>>

CountIn(m, S) == Cardinality({i \in 1..Len(m) : m[i] \in S})

StartsWith(s, p) == Len(s) >= Len(p) /\ SubSeq(s, 1, Len(p)) = p
EndsWith(s, p) == Len(s) >= Len(p) /\ SubSeq(s, Len(s) - Len(p) + 1, Len(s)) = p
\* p occurs in s at position i.
OccursAt(s, p, i) == i >= 1 /\ i + Len(p) - 1 <= Len(s) /\ SubSeq(s, i, i + Len(p) - 1) = p
Contains(s, p) == \E i \in 1..(Len(s) + 1) : OccursAt(s, p, i)

(***************************************************************************)
(* C1.  Token order does not matter: for an alignment token a, both        *)
(* [a, framed] and [framed, a] are accepted and resolve to (a, framed);    *)
(* and whenever a two-token list is accepted, the swapped list is accepted *)
(* too and resolves to the same pair.                                      *)
(***************************************************************************)
C1_OrderIndependent ==
    (Settled /\ Len(mods) = 2) =>
        /\ \A a \in AlignmentTokens :
             mods \in {<<a, "framed">>, <<"framed", a>>} =>
                 Matched /\ pos = a /\ style = "framed"
        /\ Matched =>
             /\ MatchArm(Swap(mods)) # 0
             /\ MermaidArms[MatchArm(Swap(mods))].pos = pos
             /\ MermaidArms[MatchArm(Swap(mods))].style = style

C1_Witness ==
    pc = "done" /\ mods = <<"framed", "left">> /\ pos = "left" /\ style = "framed"

(***************************************************************************)
(* C2.  The lists without transparent resolve to the canonical pair with   *)
(* the defaults center and transparent filled in: [] -> (center,           *)
(* transparent), [a] -> (a, transparent), [framed] -> (center, framed),    *)
(* [a, framed] -> (a, framed); and whatever reaches _mermaid_inner! has    *)
(* both fields set.                                                        *)
(***************************************************************************)
C2_Resolved(p, s) == Matched /\ pos = p /\ style = s

C2_CanonicalPair ==
    /\ Matched => pos \in AlignmentTokens /\ style \in StyleTokens
    /\ Settled =>
         /\ mods = <<>> => C2_Resolved("center", "transparent")
         /\ mods = <<"framed">> => C2_Resolved("center", "framed")
         /\ \A a \in AlignmentTokens :
              /\ mods = <<a>> => C2_Resolved(a, "transparent")
              /\ mods = <<a, "framed">> => C2_Resolved(a, "framed")

C2_Witness ==
    pc = "inner" /\ mods = <<"right">> /\ pos = "right" /\ style = "transparent"

(***************************************************************************)
(* C3.  transparent is an accepted modifier: [transparent] resolves to     *)
(* (center, transparent), and a list of an alignment token a and           *)
(* transparent, in either order, resolves as [a] does, to (a, transparent).*)
(***************************************************************************)
C3_TransparentAccepted ==
    Settled =>
        /\ mods = <<"transparent">> => Matched /\ pos = "center" /\ style = "transparent"
        /\ \A a \in AlignmentTokens :
             mods \in {<<a, "transparent">>, <<"transparent", a>>} =>
                 Matched /\ pos = a /\ style = "transparent"

(***************************************************************************)
(* C4.  A list with two alignment tokens, with two style tokens, with more *)
(* than two tokens, or with a token outside the vocabulary is rejected: no *)
(* arm matches and no output is produced.                                  *)
(***************************************************************************)
C4_Invalid(m) ==
    \/ CountIn(m, AlignmentTokens) >= 2
    \/ CountIn(m, StyleTokens) >= 2
    \/ Len(m) > 2
    \/ \E i \in 1..Len(m) : m[i] \notin Vocabulary

C4_InvalidRejected ==
    (pc # "call" /\ C4_Invalid(mods)) => Rejected /\ output = <<>>

C4_Witness ==
    Rejected /\ mods = <<"left", "right">> /\ output = <<>>

(***************************************************************************)
(* C5.  The modifier list is validated before the file is touched: an      *)
(* invalid list ends in the configuration error with the file never read,  *)
(* whether or not the file exists, and include_str! is reached only after  *)
(* an arm of mermaid! has matched and fixed both pos and style.            *)
(***************************************************************************)
C5_ValidationBeforeRead ==
    /\ (pc # "call" /\ C4_Invalid(mods)) => Rejected /\ ~fileRead
    /\ Rejected => ~fileRead
    /\ fileRead =>
         /\ pc \in {"done", "resource_error"}
         /\ pos \in AlignmentTokens
         /\ style \in StyleTokens

C5_Witness ==
    Rejected /\ mods = <<"framed", "transparent">> /\ disk # <<>> /\ ~fileRead

(***************************************************************************)
(* C6.  With a valid list and an unreadable file the call fails with the   *)
(* resource error and yields no string; a call yields either the complete  *)
(* string (opening container, content, closing marker, bootstrap script)   *)
(* or nothing.                                                             *)
(***************************************************************************)
C6_Complete(o, text) ==
    /\ StartsWith(o, "<pre class=\"mermaid\" style=\"text-align:")
    /\ Contains(o, "\">\n" \o text \o "\n</pre><script type=\"module\">import mermaid from ")
    /\ Contains(o, "mermaid.initialize({theme: \"dark\"});")
    /\ EndsWith(o, "</script>")

C6_AllOrNothing ==
    /\ (Matched /\ pc # "inner" /\ disk = <<>>) => pc = "resource_error" /\ output = <<>>
    /\ pc # "done" => output = <<>>
    /\ pc = "done" => Len(output) = 1 /\ C6_Complete(output[1], disk[1])

C6_Witness ==
    pc = "resource_error" /\ mods = <<"framed">> /\ disk = <<>> /\ output = <<>>

(***************************************************************************)
(* C7.  The output holds the file's text unmodified as one contiguous      *)
(* substring, right after a newline that ends the opening container marker *)
(* and right before a newline that is followed by the closing marker, also *)
(* when the text itself contains markup.                                   *)
(***************************************************************************)
C7_IsOpening(s) ==
    /\ StartsWith(s, "<pre class=\"mermaid\" style=\"")
    /\ EndsWith(s, "\">\n")

C7_VerbatimSource ==
    pc = "done" =>
        LET o == output[1]
            text == disk[1]
        IN  \E i \in 2..Len(o) :
                /\ OccursAt(o, text, i)
                /\ OccursAt(o, "\n", i - 1)
                /\ C7_IsOpening(SubSeq(o, 1, i - 1))
                /\ OccursAt(o, "\n", i + Len(text))
                /\ OccursAt(o, "</pre>", i + Len(text) + 1)

C7_Witness ==
    pc = "done" /\ disk = <<"x</pre>y">> /\ Contains(output[1], "\nx</pre>y\n</pre>")

C8_Declaration == "background: transparent;"

(***************************************************************************)
(* C8.  As claimed: the whole output contains "background: transparent;"   *)
(* when the style is transparent and does not contain it when the style is *)
(* framed, for every text of the file.                                     *)
(***************************************************************************)
C8_WholeOutput ==
    pc = "done" =>
        /\ style = "transparent" => Contains(output[1], C8_Declaration)
        /\ style = "framed" => ~Contains(output[1], C8_Declaration)

\* The opening tag of the container: the output up to its first ">".
C8_OpeningTag(o) ==
    LET k == CHOOSE i \in 1..Len(o) :
                 /\ OccursAt(o, ">", i)
                 /\ \A j \in 1..(i - 1) : ~OccursAt(o, ">", j)
    IN  SubSeq(o, 1, k)

(***************************************************************************)
(* C8, amended.  The opening tag of the container carries the declaration  *)
(* "background: transparent;" when the style is transparent and does not   *)
(* carry it when the style is framed, for every alignment and every text   *)
(* of the file.                                                            *)
(***************************************************************************)
C8_OpeningDeclaration ==
    pc = "done" =>
        /\ style \in StyleTokens
        /\ style = "transparent" => Contains(C8_OpeningTag(output[1]), C8_Declaration)
        /\ style = "framed" => ~Contains(C8_OpeningTag(output[1]), C8_Declaration)

C8_Witness ==
    /\ pc = "done"
    /\ style = "framed"
    /\ disk = <<"background: transparent;">>
    /\ ~Contains(C8_OpeningTag(output[1]), C8_Declaration)

(***************************************************************************)
(* C9.  For every accepted list the text-align declaration of the opening  *)
(* tag carries the lowercase name of the alignment the list asks for (its  *)
(* alignment token, center when it has none) and neither of the other two  *)
(* names, for both styles.                                                 *)
(***************************************************************************)
C9_ExpectedAlignment(m) ==
    IF \E i \in 1..Len(m) : m[i] \in AlignmentTokens
    THEN m[CHOOSE i \in 1..Len(m) : m[i] \in AlignmentTokens]
    ELSE "center"

C9_AlignmentDeclaration ==
    pc = "done" =>
        LET head == "<pre class=\"mermaid\" style=\"text-align:"
            want == C9_ExpectedAlignment(mods)
        IN  /\ StartsWith(output[1], head \o want \o ";")
            /\ \A other \in AlignmentTokens \ {want} :
                   ~StartsWith(output[1], head \o other \o ";")

C9_Witness ==
    /\ pc = "done"
    /\ mods = <<"framed", "right">>
    /\ StartsWith(output[1], "<pre class=\"mermaid\" style=\"text-align:right;\">")

(***************************************************************************)
(* C10.  A successful call yields, in this order, the opening tag with the *)
(* alignment declaration and the background declaration (if any), the      *)
(* file's text, the closing marker and the bootstrap script as the end of  *)
(* the string; the bootstrap script is the same bytes whatever the         *)
(* modifiers and the text.                                                 *)
(***************************************************************************)
C10_Bootstrap ==
    "<script type=\"module\">import mermaid from \"https://cdn.jsdelivr.net/npm/mermaid@10/dist/mermaid.esm.min.mjs\";var doc_theme = localStorage.getItem(\"rustdoc-theme\");if (doc_theme === \"dark\" || doc_theme === \"ayu\") mermaid.initialize({theme: \"dark\"});</script>"

C10_OrderedParts ==
    pc = "done" =>
        LET o == output[1]
            open == C8_OpeningTag(o)
            text == disk[1]
            rest == SubSeq(o, Len(open) + 1, Len(o))
        IN  /\ open = "<pre class=\"mermaid\" style=\"text-align:" \o pos \o ";"
                      \o (IF style = "transparent" THEN C8_Declaration ELSE "") \o "\">"
            /\ rest = "\n" \o text \o "\n" \o "</pre>" \o C10_Bootstrap
            /\ EndsWith(o, C10_Bootstrap)

C10_Witness ==
    /\ pc = "done"
    /\ mods = <<>>
    /\ disk = <<"graph TD; A-->B;">>
    /\ StartsWith(output[1], "<pre class=\"mermaid\" style=\"text-align:center;background: transparent;\">\ngraph TD; A-->B;\n</pre><script")

====
